---------------------------- MODULE Spec2Model ----------------------------
(***************************************************************************)
(* Expense Tracker API (src/main.py): the request handlers create_expense, *)
(* list_expenses, get_summary, monthly_chart, update_expense and           *)
(* delete_expense over the "expense" collection.                           *)
(*                                                                         *)
(* Handlers run request-parallel on a pool of workers.  Every handler but  *)
(* update_expense touches shared state in exactly one store call and is    *)
(* one atomic step.  update_expense reads the clock first and calls the    *)
(* store afterwards, so it is two steps with other requests in between.    *)
(***************************************************************************)
EXTENDS Integers, Sequences, FiniteSets, TLC

(***************************************************************************)
(* Bounds of the model.                                                    *)
(***************************************************************************)
MaxIds == 2        \* identifiers the store assigns in one behaviour
MaxClock == 1      \* ticks of the clock
MaxDocs == 2       \* records of a store content drawn for the query engine

(***************************************************************************)
(* Optional values: Optional[T] = None is the empty sequence, a supplied   *)
(* value v is <<v>>.  Truthy is Python's truth test on Optional[int].      *)
(***************************************************************************)
None == << >>

Some(v) == <<v>>

Truthy(o) == o # None /\ o[1] # 0

(***************************************************************************)
(* bson.ObjectId: str(ObjectId) is OidLen lowercase hex digits, and        *)
(* ObjectId(s) raises InvalidId unless s is OidLen hex digits.             *)
(***************************************************************************)
OidLen == 24

HexDigits == <<"0", "1", "2", "3", "4", "5", "6", "7",
               "8", "9", "a", "b", "c", "d", "e", "f">>

RECURSIVE ToHex(_, _)
ToHex(n, len) ==
    IF len = 0 THEN << >>
    ELSE Append(ToHex(n \div 16, len - 1), HexDigits[(n % 16) + 1])

ObjectIdStr(oid) == ToHex(oid, OidLen)

HexValue == [c \in {HexDigits[d] : d \in 1..16} |->
                CHOOSE d \in 0..15 : HexDigits[d + 1] = c]

RECURSIVE FromHex(_, _)
FromHex(s, len) ==
    IF len = 0 THEN 0
    ELSE FromHex(s, len - 1) * 16 + HexValue[s[len]]

InvalidId == None

ObjectId(s) ==
    IF Len(s) = OidLen /\ \A i \in 1..Len(s) : s[i] \in DOMAIN HexValue
    THEN Some(FromHex(s, Len(s)))
    ELSE InvalidId

(***************************************************************************)
(* Request inputs.                                                         *)
(***************************************************************************)
\* The requests the model issues: two valid payloads and one of invalid kind,
\* the empty patch and one that supplies two of the four fields, the two
\* identifiers the store assigns first and one that is no ObjectId.
Workers == {"w1", "w2"}

MkDate(y, m, d) == [year |-> y, month |-> m, day |-> d]

MkPayload(d, desc, amt, k) ==
    [date |-> d, description |-> desc, amount |-> amt, kind |-> k]

Rent == MkPayload(MkDate(2024, 3, 15), "rent", 1200, "debit")

Salary == MkPayload(MkDate(2024, 3, 20), "salary", 3000, "credit")

Tip == MkPayload(MkDate(2023, 4, 1), "tip", 50, "cash")

Fee == MkPayload(MkDate(2023, 12, 31), "fee", 75, "debit")

CreatePayloads == {Rent, Salary, Tip}

MkPatch(d, desc, amt, k) ==
    [date |-> d, description |-> desc, amount |-> amt, kind |-> k]

Patches ==
    { MkPatch(None, None, None, None),
      MkPatch(None, None, Some(50), Some("cash")) }

IdStrings == {ObjectIdStr(1), ObjectIdStr(2), <<"x", "y", "z">>}

MonthArgs == {None, Some(0), Some(3), Some(4), Some(13)}

YearArgs == {None, Some(0), Some(2023), Some(2024)}

VARIABLES
    store,     \* the "expense" collection: ObjectId -> document
    nextId,    \* the next ObjectId the store assigns
    deleted,   \* ObjectIds for which delete_expense returned {deleted: True}
    now,       \* the clock read by datetime.utcnow()
    pc,        \* per worker: "idle", or "update_one" inside update_expense
    req,       \* per worker: update_expense's locals (expense_id, updates)
    resp       \* the response the latest step returned, NoResp if it returned none

vars == <<store, nextId, deleted, now, pc, req, resp>>

NoReq == << >>

NoResp == [op |-> "none", arg |-> << >>, status |-> 0, body |-> << >>]

Response(op, arg, status, body) ==
    [op |-> op, arg |-> arg, status |-> status, body |-> body]

UtcNowYear == 2023 + now

IdleWorker == \E w \in Workers : pc[w] = "idle"

(***************************************************************************)
(* create_expense                                                          *)
(***************************************************************************)
IsValidKindLoose(k) == k \in {"debit", "credit", "cash"}

IsValidKind(k) == k \in {"debit", "credit"}

CreateDocument(p, t) ==
    [date |-> p.date, description |-> p.description, amount |-> p.amount,
     kind |-> p.kind, created_at |-> t, updated_at |-> t]

CreateExpense(p) ==
    /\ IdleWorker
    /\ IF ~IsValidKind(p.kind)
       THEN /\ resp' = Response("create", << >>, 422, "kind must be 'debit' or 'credit'")
            /\ UNCHANGED <<store, nextId>>
       ELSE /\ nextId <= MaxIds
            /\ store' = store @@ (nextId :> CreateDocument(p, now))
            /\ nextId' = nextId + 1
            /\ resp' = Response("create", << >>, 200, [id |-> ObjectIdStr(nextId)])
    /\ UNCHANGED <<deleted, now, pc, req>>

(***************************************************************************)
(* update_expense                                                          *)
(***************************************************************************)
PatchFields == {"date", "description", "amount", "kind"}

ModelDumpExcludeNone(patch) ==
    [f \in {g \in PatchFields : patch[g] # None} |-> patch[f][1]]

IsNoOpAfterStamp(updates) == DOMAIN (updates @@ ("updated_at" :> 0)) = {}

IsNoOp(updates) == DOMAIN updates = {}

ApplyReplace(doc, updates) == updates

ApplySet(doc, updates) ==
    [f \in DOMAIN doc \cup DOMAIN updates |->
        IF f \in DOMAIN updates THEN updates[f] ELSE doc[f]]

MatchedCount(st, oid) == IF oid \in DOMAIN st THEN 1 ELSE 0

UpdateOneUpsert(st, oid, updates) ==
    IF oid \in DOMAIN st
    THEN [st EXCEPT ![oid] = ApplySet(st[oid], updates)]
    ELSE st @@ (oid :> updates)

UpdateOne(st, oid, updates) ==
    IF oid \in DOMAIN st
    THEN [st EXCEPT ![oid] = ApplySet(st[oid], updates)]
    ELSE st

UpdateBegin(w, s, patch) ==
    /\ pc[w] = "idle"
    /\ LET updates == ModelDumpExcludeNone(patch) IN
       IF IsNoOp(updates)
       THEN /\ resp' = Response("update", s, 200, [updated |-> FALSE])
            /\ UNCHANGED <<pc, req>>
       ELSE /\ pc' = [pc EXCEPT ![w] = "update_one"]
            /\ req' = [req EXCEPT ![w] =
                          [expense_id |-> s,
                           updates |-> updates @@ ("updated_at" :> now)]]
            /\ resp' = NoResp
    /\ UNCHANGED <<store, nextId, deleted, now>>

UpdateStore(w) ==
    /\ pc[w] = "update_one"
    /\ LET parsed == ObjectId(req[w].expense_id)
           oid == parsed[1] IN
       IF parsed = InvalidId
       THEN /\ resp' = Response("update", req[w].expense_id, 500, "Internal Server Error")
            /\ UNCHANGED store
       ELSE /\ store' = UpdateOne(store, oid, req[w].updates)
            /\ resp' = IF MatchedCount(store, oid) = 0
                       THEN Response("update", req[w].expense_id, 404, "Expense not found")
                       ELSE Response("update", req[w].expense_id, 200, [updated |-> TRUE])
    /\ pc' = [pc EXCEPT ![w] = "idle"]
    /\ req' = [req EXCEPT ![w] = NoReq]
    /\ UNCHANGED <<nextId, deleted, now>>

(***************************************************************************)
(* delete_expense                                                          *)
(***************************************************************************)
DeletedCount(st, oid) == IF oid \in DOMAIN st THEN 1 ELSE 0

DeleteOne(st, oid) == [i \in DOMAIN st \ {oid} |-> st[i]]

DeleteExpense(s) ==
    /\ IdleWorker
    /\ LET parsed == ObjectId(s)
           oid == parsed[1] IN
       IF parsed = InvalidId
       THEN /\ resp' = Response("delete", s, 500, "Internal Server Error")
            /\ UNCHANGED <<store, deleted>>
       ELSE /\ store' = DeleteOne(store, oid)
            /\ IF DeletedCount(store, oid) = 0
               THEN /\ resp' = Response("delete", s, 404, "Expense not found")
                    /\ UNCHANGED deleted
               ELSE /\ resp' = Response("delete", s, 200, [deleted |-> TRUE])
                    /\ deleted' = deleted \cup {oid}
    /\ UNCHANGED <<nextId, now, pc, req>>

(***************************************************************************)
(* The period filter.  A query is the sequence of the $expr parts that are *)
(* and-ed; the empty sequence is the query {} that matches every document. *)
(***************************************************************************)
MonthPart(month) == [extract |-> "$month", value |-> month[1]]

YearPart(year) == [extract |-> "$year", value |-> year[1]]

ExprParts(month, year) ==
    (IF Truthy(month) THEN <<MonthPart(month)>> ELSE << >>)
    \o (IF Truthy(year) THEN <<YearPart(year)>> ELSE << >>)

ListQuery(month, year) ==
    IF Truthy(month) \/ Truthy(year) THEN ExprParts(month, year) ELSE << >>

SummaryMatch(month, year) == ExprParts(month, year)

EvalPart(doc, part) ==
    IF part.extract = "$month"
    THEN doc.date.month = part.value
    ELSE doc.date.year = part.value

MatchExpr(doc, parts) == \A i \in 1..Len(parts) : EvalPart(doc, parts[i])

Matched(st, parts) == {i \in DOMAIN st : MatchExpr(st[i], parts)}

RECURSIVE NaturalOrder(_)
NaturalOrder(ids) ==
    IF ids = {} THEN << >>
    ELSE LET first == CHOOSE i \in ids : \A j \in ids : i <= j
         IN  <<first>> \o NaturalOrder(ids \ {first})

Find(st, parts) ==
    LET ids == NaturalOrder(Matched(st, parts))
    IN  [n \in 1..Len(ids) |-> st[ids[n]] @@ ("_id" :> ids[n])]

GetDocuments(st, parts) == Find(st, parts)

(***************************************************************************)
(* list_expenses and serialize_doc                                         *)
(***************************************************************************)
IsoDate(d) == <<d.year, "-", d.month, "-", d.day>>

IsoTime(t) == <<"T", t>>

SerializeDoc(doc) ==
    [f \in (DOMAIN doc \ {"_id"}) \cup {"id"} |->
        IF f = "id" THEN ObjectIdStr(doc["_id"])
        ELSE IF f = "date" THEN IsoDate(doc[f])
        ELSE IF f \in {"created_at", "updated_at"} THEN IsoTime(doc[f])
        ELSE doc[f]]

Selector(month, year) == [month |-> month, year |-> year]

ListExpenses(month, year) ==
    /\ IdleWorker
    /\ LET docs == GetDocuments(store, ListQuery(month, year))
       IN  resp' = Response("list", Selector(month, year), 200,
                            [n \in 1..Len(docs) |-> SerializeDoc(docs[n])])
    /\ UNCHANGED <<store, nextId, deleted, now, pc, req>>

(***************************************************************************)
(* get_summary: $match, $group with _id None, $project.                    *)
(***************************************************************************)
Cond(doc, kind) == IF doc.kind = kind THEN doc.amount ELSE 0

RECURSIVE GroupSum(_, _)
GroupSum(docs, kind) ==
    IF docs = << >> THEN 0
    ELSE Cond(Head(docs), kind) + GroupSum(Tail(docs), kind)

SubtractSwapped(a, b) == b - a

Subtract(a, b) == a - b

Project(g) ==
    [total_debit |-> g.total_debit, total_credit |-> g.total_credit,
     balance |-> Subtract(g.total_credit, g.total_debit)]

Aggregate(st, parts) ==
    LET docs == Find(st, parts) IN
    IF docs = << >> THEN << >>
    ELSE <<Project([total_debit |-> GroupSum(docs, "debit"),
                    total_credit |-> GroupSum(docs, "credit")])>>

GetSummary(month, year) ==
    /\ IdleWorker
    /\ LET result == Aggregate(store, SummaryMatch(month, year))
       IN  resp' = Response("summary", Selector(month, year), 200,
                            IF result = << >>
                            THEN [total_debit |-> 0, total_credit |-> 0, balance |-> 0]
                            ELSE result[1])
    /\ UNCHANGED <<store, nextId, deleted, now, pc, req>>

(***************************************************************************)
(* monthly_chart: $match on the year, $group by month, then gap filling.   *)
(***************************************************************************)
ChartYear(year) == IF Truthy(year) THEN year[1] ELSE UtcNowYear

ChartData(st, y) ==
    LET inYear == Matched(st, <<YearPart(Some(y))>>)
        month(i) == st[i].date.month
        group(m) == Find([i \in {j \in inYear : month(j) = m} |-> st[i]], << >>)
    IN  { [month |-> m, debit |-> GroupSum(group(m), "debit"),
           credit |-> GroupSum(group(m), "credit")] : m \in {month(i) : i \in inYear} }

ChartMonths == 1..12

MonthMapGet(data, m) ==
    IF \E d \in data : d.month = m
    THEN CHOOSE d \in data : d.month = m
    ELSE [month |-> m, debit |-> 0, credit |-> 0]

Complete(data) == [m \in ChartMonths |-> MonthMapGet(data, m)]

MonthlyChart(year) ==
    /\ IdleWorker
    /\ resp' = Response("chart", [year |-> year], 200,
                        Complete(ChartData(store, ChartYear(year))))
    /\ UNCHANGED <<store, nextId, deleted, now, pc, req>>

Tick ==
    /\ now < MaxClock
    /\ now' = now + 1
    /\ resp' = NoResp
    /\ UNCHANGED <<store, nextId, deleted, pc, req>>

Init ==
    /\ store = << >>
    /\ nextId = 1
    /\ deleted = {}
    /\ now = 0
    /\ pc = [w \in Workers |-> "idle"]
    /\ req = [w \in Workers |-> NoReq]
    /\ resp = NoResp

Next ==
    \/ \E p \in CreatePayloads : CreateExpense(p)
    \/ \E w \in Workers, s \in IdStrings, patch \in Patches : UpdateBegin(w, s, patch)
    \/ \E w \in Workers : UpdateStore(w)
    \/ \E s \in IdStrings : DeleteExpense(s)
    \/ ListExpenses(None, None)
    \/ Tick

Spec == Init /\ [][Next]_vars

(***************************************************************************)
(* The query engine over every store content of up to MaxDocs records.     *)
(* The contents are ones create_expense and update_expense produce: Tip's  *)
(* kind is what a partial update leaves behind.                            *)
(***************************************************************************)
SampleDocs == {CreateDocument(p, 0) : p \in {Rent, Salary, Tip, Fee}}

StoreContents ==
    UNION {[1..n -> SampleDocs] : n \in 0..MaxDocs}

InitQuery ==
    /\ store \in StoreContents
    /\ nextId = Len(store) + 1
    /\ deleted = {}
    /\ now \in 0..MaxClock
    /\ pc = [w \in Workers |-> "idle"]
    /\ req = [w \in Workers |-> NoReq]
    /\ resp = NoResp

NextQuery ==
    \/ \E month \in MonthArgs, year \in YearArgs : ListExpenses(month, year)
    \/ \E month \in MonthArgs, year \in YearArgs : GetSummary(month, year)
    \/ \E year \in YearArgs : MonthlyChart(year)

SpecQuery == InitQuery /\ [][NextQuery]_vars

(***************************************************************************)
(* Properties.                                                             *)
(***************************************************************************)
ValidKinds == {"debit", "credit"}

NoMatch(s) == ObjectId(s) = InvalidId \/ ObjectId(s)[1] \notin DOMAIN store

AddressesDeleted(s) == ObjectId(s) # InvalidId /\ ObjectId(s)[1] \in deleted

RECURSIVE SumOver(_, _)
SumOver(docs, ids) ==
    IF ids = {} THEN 0
    ELSE LET i == CHOOSE j \in ids : TRUE
         IN  docs[i].amount + SumOver(docs, ids \ {i})

OfKind(docs, ids, kind) == {i \in ids : docs[i].kind = kind}

Totals(docs, ids) ==
    [total_debit |-> SumOver(docs, OfKind(docs, ids, "debit")),
     total_credit |-> SumOver(docs, OfKind(docs, ids, "credit")),
     balance |-> SumOver(docs, OfKind(docs, ids, "credit"))
                 - SumOver(docs, OfKind(docs, ids, "debit"))]

\* The selection the period filter is specified to make: a supplied month or
\* year must equal the date's component, an absent one constrains nothing.
PeriodSelects(doc, sel) ==
    /\ sel.month # None => doc.date.month = sel.month[1]
    /\ sel.year # None => doc.date.year = sel.year[1]

PeriodSelection(sel) == {i \in DOMAIN store : PeriodSelects(store[i], sel)}

ListedIds == {resp.body[n].id : n \in 1..Len(resp.body)}

\* C1: every persisted record has kind 'debit' or 'credit', whatever sequence
\* of create, update and delete operations led to the state.
C1_KindAlwaysValid ==
    \A i \in DOMAIN store : store[i].kind \in ValidKinds

\* C2: a create request whose kind is not 'debit' or 'credit' returns the
\* validation error (422) and inserts and modifies nothing.
C2_InvalidCreateRejected ==
    [][\A p \in CreatePayloads :
          (CreateExpense(p) /\ p.kind \notin ValidKinds)
              => (resp'.op = "create" /\ resp'.status = 422
                  /\ store' = store /\ nextId' = nextId)]_vars

C2_Witness ==
    /\ resp.op = "create" /\ resp.status = 422
    /\ DOMAIN store # {}

\* C3: summary returns total_debit and total_credit as the sums of amount over
\* the matched debit and credit records and balance as their difference, and
\* exactly 0, 0, 0 when nothing matched.
C3_SummaryTotals ==
    resp.op = "summary" =>
        LET ids == Matched(store, SummaryMatch(resp.arg.month, resp.arg.year)) IN
        /\ resp.body = Totals(store, ids)
        /\ resp.body.balance = resp.body.total_credit - resp.body.total_debit
        /\ ids = {} => resp.body = [total_debit |-> 0, total_credit |-> 0, balance |-> 0]

C3_Witness ==
    /\ resp.op = "summary"
    /\ resp.arg = Selector(Some(3), Some(2024))
    /\ resp.body = [total_debit |-> 1200, total_credit |-> 3000, balance |-> 1800]

\* C4: monthlyChart returns 12 entries for months 1..12 in order, and the entry
\* for month m carries the debit and credit sums of the records dated in month
\* m of the target year (the year argument, the current year when absent),
\* zeros when there is none.
C4_ChartOfTargetYear ==
    resp.op = "chart" =>
        LET target == IF resp.arg.year = None THEN UtcNowYear ELSE resp.arg.year[1]
            inMonth(m) == {i \in DOMAIN store :
                              store[i].date.year = target /\ store[i].date.month = m}
        IN  /\ DOMAIN resp.body = 1..12
            /\ \A m \in 1..12 :
                  /\ resp.body[m].month = m
                  /\ resp.body[m].debit = Totals(store, inMonth(m)).total_debit
                  /\ resp.body[m].credit = Totals(store, inMonth(m)).total_credit

OutOfRange(sel) ==
    \/ sel.month # None /\ sel.month[1] \notin 1..12
    \/ sel.year # None /\ \A i \in DOMAIN store : store[i].date.year # sel.year[1]

\* C5: with an out-of-range month (outside 1..12) or a year in which no record
\* is dated, list returns the empty sequence and summary returns all zeros.
C5_OutOfRangeMatchesNothing ==
    /\ (resp.op = "list" /\ OutOfRange(resp.arg)) => resp.body = << >>
    /\ (resp.op = "summary" /\ OutOfRange(resp.arg))
          => resp.body = [total_debit |-> 0, total_credit |-> 0, balance |-> 0]

\* C6: list and summary select exactly the records whose date agrees with
\* every supplied selector (all records when none is supplied), and both make
\* the same selection for the same (month, year).
C6_PeriodSelection ==
    /\ resp.op = "list" => ListedIds = {ObjectIdStr(i) : i \in PeriodSelection(resp.arg)}
    /\ resp.op = "summary" => resp.body = Totals(store, PeriodSelection(resp.arg))
    /\ resp.op \in {"list", "summary"} =>
          Matched(store, ListQuery(resp.arg.month, resp.arg.year))
              = Matched(store, SummaryMatch(resp.arg.month, resp.arg.year))

\* C7: an update with fields, or a delete, addressed to an identifier that
\* matches no record returns not-found (404) and leaves the store unchanged.
C7_UnknownIdNotFound ==
    [][/\ \A w \in Workers :
             (pc[w] = "update_one" /\ pc'[w] = "idle" /\ NoMatch(req[w].expense_id))
                 => (resp'.status = 404 /\ store' = store)
       /\ (resp'.op = "delete" /\ NoMatch(resp'.arg))
             => (resp'.status = 404 /\ store' = store)]_vars

\* C8: an update that supplies no field returns {updated: false} without a
\* store call, whether or not the identifier exists: no record changes and no
\* update is left in flight.
C8_EmptyUpdateIsNoOp ==
    [][\A w \in Workers, s \in IdStrings, patch \in Patches :
          (UpdateBegin(w, s, patch) /\ \A f \in PatchFields : patch[f] = None)
              => (/\ resp'.op = "update" /\ resp'.status = 200
                  /\ resp'.body = [updated |-> FALSE]
                  /\ store' = store
                  /\ pc' = pc /\ req' = req)]_vars

C8_Witness ==
    /\ resp.op = "update" /\ resp.status = 200
    /\ resp.body.updated = FALSE
    /\ ~NoMatch(resp.arg)
    /\ store[ObjectId(resp.arg)[1]].updated_at < now

\* C9: a successful update sets exactly the supplied fields of the addressed
\* record and its updated_at (to the time the request read); the record's
\* identifier, created_at and unsupplied fields, and every other record, are
\* unchanged.
C9_UpdateFrame ==
    [][\A w \in Workers :
          (pc[w] = "update_one" /\ pc'[w] = "idle" /\ resp'.status = 200) =>
              LET oid == ObjectId(req[w].expense_id)[1]
                  updates == req[w].updates
              IN  /\ oid \in DOMAIN store
                  /\ DOMAIN store' = DOMAIN store
                  /\ DOMAIN store'[oid] = DOMAIN store[oid]
                  /\ \A f \in PatchFields :
                        store'[oid][f] = IF f \in DOMAIN updates
                                         THEN updates[f] ELSE store[oid][f]
                  /\ store'[oid].updated_at = updates.updated_at
                  /\ store'[oid].created_at = store[oid].created_at
                  /\ \A j \in DOMAIN store \ {oid} : store'[j] = store[j]]_vars

C9_Witness ==
    /\ resp.op = "update" /\ resp.status = 200
    /\ resp.body.updated = TRUE
    /\ Cardinality(DOMAIN store) = 2
    /\ ObjectId(resp.arg)[1] = 2
    /\ store[2].kind = "cash" /\ store[2].amount = 50
    /\ store[2].description = "rent"
    /\ store[2].created_at < store[2].updated_at

\* C10: once delete has returned {deleted: true} for an identifier, no record
\* with it is in the store in any later state, list does not return it, and
\* every later update (with fields) or delete on it returns not-found; an
\* update in flight across the delete does not re-create the record.
C10_DeletionPermanent ==
    [][/\ \A i \in deleted' : i \notin DOMAIN store'
       /\ resp'.op = "list" =>
             \A n \in 1..Len(resp'.body) :
                 resp'.body[n].id \notin {ObjectIdStr(i) : i \in deleted'}
       /\ \A w \in Workers :
             (pc[w] = "update_one" /\ pc'[w] = "idle"
                  /\ AddressesDeleted(req[w].expense_id))
                 => (resp'.status = 404 /\ store' = store)
       /\ (resp'.op = "delete" /\ AddressesDeleted(resp'.arg))
             => resp'.status = 404]_vars

C10_Witness ==
    /\ resp.op = "update" /\ resp.status = 404
    /\ AddressesDeleted(resp.arg)
    /\ DOMAIN store # {}

=============================================================================
